---- MODULE Spec2Model ----
(***************************************************************************)
(* robot-hat: the shared PWM timer bank (pwm.py), the servo pulse mapping  *)
(* (servo.py), the retrying register bus (i2c.py) and the time-stepped     *)
(* multi-servo motion controller (robot.py).                               *)
(*                                                                         *)
(* Python floats are modelled as exact rationals <<n, d>> (d > 0, lowest   *)
(* terms), except where the outcome of the code depends on the last bit of *)
(* a double (the error comparison of PWM.freq), which is computed in       *)
(* IEEE-754 double arithmetic.                                             *)
(***************************************************************************)
EXTENDS Integers, Sequences, FiniteSets, TLC

VARIABLES
    timer,            \* pwm.py `timer`: [0..6 -> period (arr)], process-wide
    chan,             \* the PWM/Servo object living on each channel 0..19
    faults,           \* bus: number of upcoming transfer attempts that raise OSError
    tx,               \* bus: the register transactions of the latest operation
    lastOp,           \* the latest operation, its arguments and how it ended
    progOrder,        \* channels through which a period was programmed, latest first
    progArr,          \* [channel -> the period last programmed through it]
    offset,           \* Robot.offset
    origin_positions, \* Robot.origin_positions
    direction,        \* Robot.direction
    servo_positions,  \* Robot.servo_positions
    pc,               \* Robot: "idle", or "stepping" inside servo_move's loop
    move,             \* Robot: the locals of the servo_move in progress / last run
    db,               \* fileDB: the stored line of the Robot's offset list
    calibrate_position, \* Robot.calibrate_position
    aliased,          \* servo_positions and calibrate_position are one list object
    call,             \* Robot: the latest servo_write_all call, its locals
    action,           \* Robot: the do_action in progress / last run, its locals
    motors            \* Motors: its config file and the Motors object

pwmVars == <<timer, chan, faults, tx, progOrder, progArr>>
ctrlVars == <<offset, origin_positions, direction, servo_positions, pc, move,
              db, calibrate_position, aliased, call, action>>
robotVars == <<offset, origin_positions, direction, servo_positions, pc, move,
               db, calibrate_position, aliased, call, action, motors>>
vars == <<timer, chan, faults, tx, lastOp, progOrder, progArr,
          offset, origin_positions, direction, servo_positions, pc, move,
          db, calibrate_position, aliased, call, action, motors>>

----------------------------------------------------------------------------
(* Exact rational arithmetic standing for Python float arithmetic.          *)

Abs(x) == IF x < 0 THEN -x ELSE x

RECURSIVE GCD(_, _)
GCD(a, b) == IF b = 0 THEN a ELSE GCD(b, a % b)

Rat(n, d) ==
    LET g == GCD(Abs(n), Abs(d))
        s == IF d < 0 THEN -1 ELSE 1
    IN  <<(s * n) \div g, (s * d) \div g>>

RI(n) == <<n, 1>>
RAdd(a, b) == Rat(a[1] * b[2] + b[1] * a[2], a[2] * b[2])
RSub(a, b) == Rat(a[1] * b[2] - b[1] * a[2], a[2] * b[2])
RMul(a, b) == Rat(a[1] * b[1], a[2] * b[2])
RDiv(a, b) == Rat(a[1] * b[2], a[2] * b[1])
RLt(a, b) == a[1] * b[2] < b[1] * a[2]
RLe(a, b) == a[1] * b[2] <= b[1] * a[2]
RAbs(a) == <<Abs(a[1]), a[2]>>
RMax(a, b) == IF RLt(a, b) THEN b ELSE a     \* Python max(a, b): a unless b is greater
RMin(a, b) == IF RLt(b, a) THEN b ELSE a     \* Python min(a, b): a unless b is smaller

\* Python int(x): truncation toward zero.
RTrunc(a) == IF a[1] >= 0 THEN a[1] \div a[2] ELSE -((-a[1]) \div a[2])

\* Python 3 round(x): to the nearest integer, halves to the even one.
RFloor(a) == a[1] \div a[2]
RRound(a) ==
    LET f == RFloor(a)
        r2 == 2 * (a[1] - f * a[2])          \* twice the fractional part, times d
    IN  IF r2 < a[2] THEN f
        ELSE IF r2 > a[2] THEN f + 1
        ELSE IF f % 2 = 0 THEN f ELSE f + 1

\* n1/d1 < n2/d2 for n >= 0, d > 0, by Euclid's algorithm: no product is
\* formed, so the comparison is exact for numerators up to CLOCK.
RECURSIVE FracLt(_, _, _, _)
FracLt(n1, d1, n2, d2) ==
    LET q1 == n1 \div d1
        q2 == n2 \div d2
        r1 == n1 % d1
        r2 == n2 % d2
    IN  IF q1 # q2 THEN q1 < q2
        ELSE IF r2 = 0 THEN FALSE
        ELSE IF r1 = 0 THEN TRUE
        ELSE FracLt(d2, r2, d1, r1)

\* int(math.sqrt(x)) for x >= 0: the integer square root of floor(x).
RECURSIVE SqrtSearch(_, _, _)
SqrtSearch(x, lo, hi) ==
    IF lo = hi THEN lo
    ELSE LET mid == (lo + hi + 1) \div 2
         IN  IF mid * mid <= x THEN SqrtSearch(x, mid, hi)
             ELSE SqrtSearch(x, lo, mid - 1)

ISqrt(x) == SqrtSearch(x, 0, 9000)

----------------------------------------------------------------------------
(* IEEE-754 double division, for the one place where the last bit of a     *)
(* double decides the outcome (the error comparison of PWM.freq).  A        *)
(* double is [e, m]: the value 0.m[1] m[2] ... m[53] * 2^e, m[1] = 1.       *)

MantBits == 53

RECURSIVE BitsOf(_)
BitsOf(n) == IF n = 0 THEN <<>> ELSE Append(BitsOf(n \div 2), n % 2)

FloatOfInt(n) == [e |-> Len(BitsOf(n)), m |-> BitsOf(n)]

\* Long division of the bit string m (followed by zeros) by d: the quotient's
\* first MantBits + 1 significant bits, the count of leading zero bits
\* dropped, and the remainder left.
RECURSIVE DivBits(_, _, _, _, _, _)
DivBits(m, i, r, d, out, lead) ==
    IF Len(out) = MantBits + 1 THEN [bits |-> out, lead |-> lead, rem |-> r]
    ELSE LET r2 == 2 * r + (IF i <= Len(m) THEN m[i] ELSE 0)
             q == IF r2 >= d THEN 1 ELSE 0
             r3 == r2 - q * d
         IN  IF out = <<>> /\ q = 0
             THEN DivBits(m, i + 1, r3, d, out, lead + 1)
             ELSE DivBits(m, i + 1, r3, d, Append(out, q), lead)

\* m + 1 in the last place; a carry out of the first place gives 10...0.
RECURSIVE IncBits(_, _)
IncBits(m, i) ==
    IF i = 0 THEN [carry |-> TRUE, m |-> [j \in 1 .. Len(m) |-> IF j = 1 THEN 1 ELSE 0]]
    ELSE IF m[i] = 0 THEN [carry |-> FALSE, m |-> [m EXCEPT ![i] = 1]]
    ELSE IncBits([m EXCEPT ![i] = 0], i - 1)

\* x / d for a double x and a positive integer d, rounded to nearest, ties
\* to even.
FloatDiv(x, d) ==
    LET q == DivBits(x.m, 1, 0, d, <<>>, 0)
        m == SubSeq(q.bits, 1, MantBits)
        up == q.bits[MantBits + 1] = 1 /\ (q.rem # 0 \/ m[MantBits] = 1)
        inc == IncBits(m, MantBits)
    IN  IF ~up THEN [e |-> x.e - q.lead, m |-> m]
        ELSE [e |-> x.e - q.lead + (IF inc.carry THEN 1 ELSE 0), m |-> inc.m]

\* x < y for positive doubles.
FloatLt(x, y) ==
    \/ x.e < y.e
    \/ /\ x.e = y.e
       /\ \E i \in 1 .. MantBits :
            /\ x.m[i] < y.m[i]
            /\ \A j \in 1 .. i - 1 : x.m[j] = y.m[j]

----------------------------------------------------------------------------
(* i2c.py: the register bus with its retry wrapper.                         *)

RETRY == 5

\* _retry_wrapper: up to RETRY attempts; an attempt that raises OSError is
\* followed by the next one; after RETRY failures the for-else returns False.
\* f is the number of upcoming attempts that raise, n the attempts made.
RetryGivesUp(f, n) ==
    IF f > 0
    THEN [ok |-> FALSE, raised |-> FALSE, attempts |-> n + 1, faults |-> f - 1]
    ELSE [ok |-> TRUE, raised |-> FALSE, attempts |-> n + 1, faults |-> f]

RetryRaises(f, n) ==
    IF f >= RETRY - n
    THEN [ok |-> FALSE, raised |-> TRUE, attempts |-> RETRY, faults |-> f - (RETRY - n)]
    ELSE [ok |-> TRUE, raised |-> FALSE, attempts |-> n + f + 1, faults |-> 0]

RECURSIVE _retry_wrapper(_, _)
_retry_wrapper(f, n) ==
    IF n = RETRY
    THEN [ok |-> FALSE, raised |-> FALSE, attempts |-> n, faults |-> f]
    ELSE IF f > 0
         THEN _retry_wrapper(f - 1, n + 1)
         ELSE [ok |-> TRUE, raised |-> FALSE, attempts |-> n + 1, faults |-> f]

\* The hardware-side state an operation works on.
HW == [timer |-> timer, chan |-> chan, faults |-> faults, tx |-> <<>>,
       err |-> "none", progOrder |-> progOrder, progArr |-> progArr]

\* I2C.write([reg, value_h, value_l]): a three-element list goes out as one
\* word transfer val = (data[2] << 8) + data[1] through the retry wrapper;
\* the wrapper's result is discarded by write().
I2C_write(h, data) ==
    LET r == _retry_wrapper(h.faults, 0)
        t == [reg |-> data[1], val |-> data[3] * 256 + data[2], len |-> Len(data),
              bytes |-> data, attempts |-> r.attempts, ok |-> r.ok]
    IN  [h EXCEPT !.faults = r.faults,
                  !.tx = Append(@, t),
                  !.err = IF r.raised THEN "OSError" ELSE h.err]

----------------------------------------------------------------------------
(* pwm.py: the timer bank and the PWM channel.                              *)

CLOCK == 72000000
REG_CHN == 32       \* 0x20
REG_PSC == 64       \* 0x40
REG_ARR == 68       \* 0x44
REG_PSC2 == 80      \* 0x50
REG_ARR2 == 84      \* 0x54
WINDOW == 10        \* range(start, start + 10)

Channels == 0 .. 19
Timers == 0 .. 6

\* pulse_width_percent is <<>> while the object has no _pulse_width_percent
\* attribute, <<q>> once pulse_width_percent(q) has set it.
NoObject == [kind |-> "none", freq |-> 0, prescaler |-> 0, pulse_width |-> 0,
             pulse_width_percent |-> <<>>]

\* PWM.__init__: the channel's timer.
TimerIndexFlat(channel) == channel \div 4

timer_index(channel) ==
    IF channel < 16 THEN channel \div 4
    ELSE IF channel \in {16, 17} THEN 4
    ELSE IF channel = 18 THEN 5
    ELSE 6

\* PWM._i2c_write: high byte, low byte after the register address.
_i2c_write(h, reg, value) == I2C_write(h, <<reg, value \div 256, value % 256>>)

\* int(self.CLOCK / prescaler / arr)
FreqOf(p, a) == (CLOCK \div p) \div a

\* PWM.prescaler(prescaler): the setter.
prescaler(h, c, p) ==
    LET pr == RRound(p)
        a == h.timer[timer_index(c)]
        h1 == [h EXCEPT !.chan[c].prescaler = pr]
        reg == IF timer_index(c) < 4 THEN REG_PSC + timer_index(c)
               ELSE REG_PSC2 + timer_index(c) - 4
    IN  IF h.err # "none" THEN h
        ELSE IF pr = 0 \/ a = 0 THEN [h1 EXCEPT !.err = "ZeroDivisionError"]
        ELSE _i2c_write([h1 EXCEPT !.chan[c].freq = FreqOf(pr, a)], reg, pr - 1)

\* The channels through which a period was programmed, latest first.
Without(s, c) == SelectSeq(s, LAMBDA x : x # c)

\* PWM.period(arr): the setter.
period(h, c, arr) ==
    LET a == RRound(arr)
        t == timer_index(c)
        h1 == [h EXCEPT !.timer[t] = a,
                        !.progOrder = <<c>> \o Without(@, c),
                        !.progArr[c] = a]
        reg == IF t < 4 THEN REG_ARR + t ELSE REG_ARR2 + t - 4
    IN  IF h.err # "none" THEN h
        ELSE IF h.chan[c].prescaler = 0 \/ a = 0
             THEN [h1 EXCEPT !.err = "ZeroDivisionError"]
        ELSE _i2c_write([h1 EXCEPT !.chan[c].freq = FreqOf(h.chan[c].prescaler, a)],
                        reg, a)

\* PWM.freq(freq), the search: start prescaler, candidate period, error.
FreqStart(f) ==
    LET s == ISqrt(CLOCK \div f) - 5
    IN  IF s > 1 THEN s ELSE 1

CandidateArrNoPsc(f, psc) == CLOCK \div f

CandidateArr(f, psc) == CLOCK \div (f * psc)

\* self.CLOCK / psc / arr, the achieved frequency, as the double the code
\* computes.
Achieved(f, psc) == FloatDiv(FloatDiv(FloatOfInt(CLOCK), psc), CandidateArr(f, psc))

\* abs(self._freq - CLOCK / psc / arr) of psc p1 is less than that of p2.
\* arr is a floor, so the achieved frequency is never below self._freq, and
\* the difference of two doubles within a factor 2 of each other is exact:
\* the errors compare as the achieved frequencies do.
ErrLess(f, p1, p2) == FloatLt(Achieved(f, p1), Achieved(f, p2))

FreqWindow(f) == FreqStart(f) .. FreqStart(f) + WINDOW - 1

\* The loop divides by arr: a candidate period of 0 raises ZeroDivisionError;
\* int(freq) = 0 raises it in CLOCK / self._freq, and math.sqrt of a negative
\* quotient raises ValueError.
FreqRaises(f) ==
    IF f < 0 THEN "ValueError"
    ELSE IF f = 0 THEN "ZeroDivisionError"
    ELSE IF \E psc \in FreqWindow(f) : CandidateArr(f, psc) = 0 THEN "ZeroDivisionError"
    ELSE "none"

\* errors.index(min(errors)): the scan keeps the earlier candidate unless a
\* later one has a smaller error.
LastCandidate(f, best, psc, last) == last

RECURSIVE MinScan(_, _, _, _)
MinScan(f, best, psc, last) ==
    IF psc > last THEN best
    ELSE IF ErrLess(f, psc, best) THEN MinScan(f, psc, psc + 1, last)
    ELSE MinScan(f, best, psc + 1, last)

FirstMin(f) == MinScan(f, FreqStart(f), FreqStart(f) + 1, FreqStart(f) + WINDOW - 1)

\* PWM.freq(freq): the setter; psc is candidates[idx][0].
freq(h, c, hz, psc) ==
    LET f == RTrunc(hz)
        h1 == [h EXCEPT !.chan[c].freq = f]
    IN  IF h.err # "none" THEN h
        ELSE IF FreqRaises(f) # "none" THEN [h1 EXCEPT !.err = FreqRaises(f)]
        ELSE period(prescaler(h1, c, RI(psc)), c, RI(CandidateArr(f, psc)))

\* PWM.pulse_width(pulse_width): the setter.
PulseWidthRounded(h, c, pw) ==
    IF h.err # "none" THEN h
    ELSE _i2c_write([h EXCEPT !.chan[c].pulse_width = RRound(pw)],
                    REG_CHN + c, RRound(pw))

pulse_width(h, c, pw) ==
    IF h.err # "none" THEN h
    ELSE _i2c_write([h EXCEPT !.chan[c].pulse_width = RTrunc(pw)],
                    REG_CHN + c, RTrunc(pw))

\* PWM.pulse_width_percent(pulse_width_percent): the setter.
pulse_width_percent(h, c, q) ==
    LET ratio == RDiv(q, RI(100))
        width == RMul(ratio, RI(h.timer[timer_index(c)]))
    IN  IF h.err # "none" THEN h
        ELSE pulse_width([h EXCEPT !.chan[c].pulse_width_percent = <<q>>], c, width)

\* The getters: freq(), prescaler(), period(), pulse_width(),
\* pulse_width_percent() without argument.
freq_get(c) == chan[c].freq
prescaler_get(c) == chan[c].prescaler
period_get(c) == timer[timer_index(c)]
pulse_width_get(c) == chan[c].pulse_width
pulse_width_percent_get(c) == chan[c].pulse_width_percent

\* PWM.__init__: the candidate freq(50) takes, computed once.
InitPsc == FirstMin(50)

PWM_init(h, c, kind) ==
    freq([h EXCEPT !.chan[c] = [kind |-> kind, freq |-> 50, prescaler |-> 0,
                                pulse_width |-> 0, pulse_width_percent |-> <<>>]],
         c, RI(50), InitPsc)

----------------------------------------------------------------------------
(* servo.py: the servo on a PWM channel.                                    *)

MAX_PW == 2500
MIN_PW == 500
FREQ == 50
PERIOD == 4095

\* Servo.__init__: PWM.__init__, then period(PERIOD) and
\* prescaler(CLOCK / FREQ / PERIOD).
Servo_init(h, c) ==
    prescaler(period(PWM_init(h, c, "servo"), c, RI(PERIOD)),
              c, Rat(CLOCK, FREQ * PERIOD))

\* utils.mapping
MappingNoOutMin(x, in_min, in_max, out_min, out_max) ==
    RDiv(RMul(RSub(x, in_min), RSub(out_max, out_min)), RSub(in_max, in_min))

mapping(x, in_min, in_max, out_min, out_max) ==
    RAdd(RDiv(RMul(RSub(x, in_min), RSub(out_max, out_min)), RSub(in_max, in_min)),
         out_min)

\* int(duty_frac * self.PERIOD) with duty_frac = clamped_pw / 20000.0
PwmCountRounded(clamped_pw) == RRound(RMul(RDiv(clamped_pw, RI(20000)), RI(PERIOD)))

PwmCountMicros(clamped_pw) == RTrunc(clamped_pw)

PwmCount(clamped_pw) == RTrunc(RMul(RDiv(clamped_pw, RI(20000)), RI(PERIOD)))

\* Servo.pulse_width_time(pulse_width_time)
pulse_width_time(h, c, t) ==
    LET clamped_pw == RMax(RI(MIN_PW), RMin(RI(MAX_PW), t))
    IN  pulse_width(h, c, RI(PwmCount(clamped_pw)))

\* Servo.angle(angle), angle numeric
angle(h, c, a) ==
    LET clamped == RMax(RI(-90), RMin(RI(90), a))
    IN  pulse_width_time(h, c, mapping(clamped, RI(-90), RI(90), RI(MIN_PW), RI(MAX_PW)))

----------------------------------------------------------------------------
(* Text: str() of a list of numbers, its parsing in Robot.__init__, and the *)
(* line fileDB keeps for a name.  A text is a sequence of characters; a     *)
(* Python number is [v |-> its value, float |-> whether it is a float].     *)

DigitChars == <<"0", "1", "2", "3", "4", "5", "6", "7", "8", "9">>
DigitChar(d) == DigitChars[d + 1]
IsDigit(ch) == \E d \in 0 .. 9 : DigitChars[d + 1] = ch
DigitVal(ch) == CHOOSE d \in 0 .. 9 : DigitChars[d + 1] = ch

PyInt(n) == [v |-> RI(n), float |-> FALSE]
PyFloat(r) == [v |-> r, float |-> TRUE]

\* str(n) for an int n >= 0.
RECURSIVE NatText(_)
NatText(n) ==
    IF n < 10 THEN <<DigitChar(n)>>
    ELSE NatText(n \div 10) \o <<DigitChar(n % 10)>>

\* The decimal digits of r / d, 0 <= r < d, d a divisor of a power of ten.
RECURSIVE FracText(_, _)
FracText(r, d) ==
    IF r = 0 THEN <<>>
    ELSE <<DigitChar((r * 10) \div d)>> \o FracText((r * 10) % d, d)

\* str(x) of a number inside a list, i.e. repr(x): an int prints its digits,
\* a float its shortest decimal, with ".0" when it is whole.
NumText(x) ==
    LET n == Abs(x.v[1])
        d == x.v[2]
        sign == IF x.v[1] < 0 THEN <<"-">> ELSE <<>>
    IN  IF ~x.float THEN sign \o NatText(n)
        ELSE sign \o NatText(n \div d) \o <<".">>
                  \o (IF n % d = 0 THEN <<"0">> ELSE FracText(n % d, d))

\* str(list): "[" + ", ".join(repr(x)) + "]"
RECURSIVE JoinText(_, _)
JoinText(l, i) ==
    IF i > Len(l) THEN <<>>
    ELSE (IF i > 1 THEN <<",", " ">> ELSE <<>>) \o NumText(l[i]) \o JoinText(l, i + 1)

ListText(l) == <<"[">> \o JoinText(l, 1) \o <<"]">>

\* str.strip(chars)
RECURSIVE LStrip(_, _)
LStrip(t, chars) ==
    IF t # <<>> /\ Head(t) \in chars THEN LStrip(Tail(t), chars) ELSE t

RECURSIVE RStrip(_, _)
RStrip(t, chars) ==
    IF t # <<>> /\ t[Len(t)] \in chars THEN RStrip(SubSeq(t, 1, Len(t) - 1), chars)
    ELSE t

Strip(t, chars) == RStrip(LStrip(t, chars), chars)
Whitespace == {" ", "\n", "\t", "\r"}

\* str.split(","): the pieces between the commas, at least one.
RECURSIVE SplitComma(_, _, _)
SplitComma(t, i, piece) ==
    IF i > Len(t) THEN <<piece>>
    ELSE IF t[i] = "," THEN <<piece>> \o SplitComma(t, i + 1, <<>>)
    ELSE SplitComma(t, i + 1, Append(piece, t[i]))

\* float(text) for a plain decimal: sign, digits, optional point and digits;
\* anything else (the empty text among them) raises ValueError.
RECURSIVE DigitsVal(_, _, _)
DigitsVal(t, i, acc) ==
    IF i > Len(t) THEN acc ELSE DigitsVal(t, i + 1, acc * 10 + DigitVal(t[i]))

RECURSIVE Pow10(_)
Pow10(k) == IF k = 0 THEN 1 ELSE 10 * Pow10(k - 1)

ParseFloat(t0) ==
    LET neg == t0 # <<>> /\ Head(t0) = "-"
        t == IF t0 # <<>> /\ Head(t0) \in {"-", "+"} THEN Tail(t0) ELSE t0
        dots == {i \in 1 .. Len(t) : t[i] = "."}
        dot == IF dots = {} THEN Len(t) + 1 ELSE CHOOSE i \in dots : TRUE
        ip == SubSeq(t, 1, dot - 1)
        fp == SubSeq(t, dot + 1, Len(t))
        mag == Rat(DigitsVal(ip \o fp, 1, 0), Pow10(Len(fp)))
    IN  IF Cardinality(dots) > 1 \/ Len(ip) + Len(fp) = 0
           \/ \E i \in 1 .. Len(t) : t[i] # "." /\ ~IsDigit(t[i])
        THEN [err |-> "ValueError", v |-> RI(0)]
        ELSE [err |-> "none", v |-> IF neg THEN <<-mag[1], mag[2]>> ELSE mag]

\* fileDB.set(name, value) writes the line "name = value\n"; fileDB.get(name,
\* default) returns what follows the first "=" of that line, stripped, or the
\* default when the file has no such line.  db holds what follows the "=".
NoLine == [present |-> FALSE, val |-> <<>>]
fileDB_set(value) == [present |-> TRUE, val |-> <<" ">> \o value \o <<"\n">>]
fileDB_get(d, default_value) ==
    IF d.present THEN Strip(d.val, Whitespace) ELSE default_value

----------------------------------------------------------------------------
(* The PWM bank driven directly: constructions and setter calls.            *)

MaxObjects == 2     \* PWM/Servo objects alive at once
MaxFaults == 6      \* failing transfer attempts the bus may have pending

ChannelInputs == {0, 1, 16, 17, 19}
ShareFreqInputs == {RI(50), RI(100)}
PeriodInputs == {RI(1000)}
FreqChannels == {0, 1, 19}
FreqInputs == {RI(5), RI(50), RI(100), RI(1000), RI(20000), <<101, 2>>, RI(8000000)}
ServoChannels == {0, 19}
PulseChannels == {0, 1}
ChannelFreqInputs == {RI(1000), RI(0), RI(-5)}
PrescalerInputs == {<<5, 2>>}
PulseInputs == {RI(600), RI(70000)}
PercentInputs == {RI(10)}
AngleInputs == {RI(10 * k) : k \in -10 .. 10} \cup {RI(-89), RI(89), <<1, 2>>, <<-181, 2>>}

\* The candidate freq(hz) takes for each input frequency, computed once.
FreqChoiceOf ==
    [hz \in FreqInputs \cup ShareFreqInputs \cup ChannelFreqInputs |->
        IF FreqRaises(RTrunc(hz)) # "none" THEN 0 ELSE FirstMin(RTrunc(hz))]

Objects == {c \in Channels : chan[c].kind # "none"}

\* The state an operation leaves: h0 is the outcome of the whole operation.
Commit(h0, op, c, arg) ==
    \E h \in {h0} :
        /\ timer' = h.timer
        /\ chan' = h.chan
        /\ faults' = h.faults
        /\ tx' = h.tx
        /\ progOrder' = h.progOrder
        /\ progArr' = h.progArr
        /\ lastOp' = [op |-> op, ch |-> c, arg |-> arg, err |-> h.err]

NewPWM(c) ==
    /\ c \in Objects \/ Cardinality(Objects) < MaxObjects
    /\ Commit(PWM_init(HW, c, "pwm"), "PWM", c, RI(0))
    /\ UNCHANGED robotVars

NewServo(c) ==
    /\ c \in Objects \/ Cardinality(Objects) < MaxObjects
    /\ Commit(Servo_init(HW, c), "Servo", c, RI(0))
    /\ UNCHANGED robotVars

SetFreq(c, hz) ==
    /\ c \in Objects
    /\ Commit(freq(HW, c, hz, FreqChoiceOf[hz]), "freq", c, hz)
    /\ UNCHANGED robotVars

SetPeriod(c, arr) ==
    /\ c \in Objects
    /\ Commit(period(HW, c, arr), "period", c, arr)
    /\ UNCHANGED robotVars

SetPrescaler(c, p) ==
    /\ c \in Objects
    /\ Commit(prescaler(HW, c, p), "prescaler", c, p)
    /\ UNCHANGED robotVars

SetPulseWidth(c, pw) ==
    /\ c \in Objects
    /\ Commit(pulse_width(HW, c, pw), "pulse_width", c, pw)
    /\ UNCHANGED robotVars

SetPulseWidthPercent(c, q) ==
    /\ c \in Objects
    /\ Commit(pulse_width_percent(HW, c, q), "pulse_width_percent", c, q)
    /\ UNCHANGED robotVars

SetAngle(c, a) ==
    /\ c \in Objects
    /\ chan[c].kind = "servo"
    /\ Commit(angle(HW, c, a), "angle", c, a)
    /\ UNCHANGED robotVars

\* The environment: the next n transfer attempts on the bus raise OSError.
BusFault(n) ==
    /\ faults = 0
    /\ faults' = n
    /\ UNCHANGED <<timer, chan, tx, lastOp, progOrder, progArr>>
    /\ UNCHANGED robotVars

\* No do_action call yet: rep and idx are the two loop indices, calls the
\* targets of the servo_move calls issued so far.
NoAction == [name |-> "", step |-> 0, speed |-> 0, rep |-> 0, idx |-> 0,
             calls |-> <<>>, active |-> FALSE, result |-> "none"]

\* No Motors object, an empty config file: a line per key, and the object's
\* left_id, right_id, and _is_reverse of motors[0] and motors[1].
NoMotors == [db |-> [k \in {"left", "right", "left_reverse", "right_reverse"} |-> NoLine],
             present |-> FALSE, left_id |-> 0, right_id |-> 0,
             is_reverse |-> <<FALSE, FALSE>>, ret |-> FALSE]

\* No servo_write_all call yet: angles is its argument, rel the angles it
\* dispatches, used[i] the offset list read for axis i, axis the loop index.
NoCall == [angles |-> <<>>, rel |-> <<>>, used |-> <<>>, axis |-> 0]

NoRobot ==
    /\ offset = <<>>
    /\ origin_positions = <<>>
    /\ direction = <<>>
    /\ servo_positions = <<>>
    /\ pc = "absent"
    /\ move = [op |-> "none"]
    /\ db = NoLine
    /\ calibrate_position = <<>>
    /\ aliased = FALSE
    /\ call = NoCall
    /\ action = NoAction
    /\ motors = NoMotors

Init ==
    /\ timer = [t \in Timers |-> 1]
    /\ chan = [c \in Channels |-> NoObject]
    /\ faults = 0
    /\ tx = <<>>
    /\ lastOp = [op |-> "none", ch |-> 0, arg |-> RI(0), err |-> "none"]
    /\ progOrder = <<>>
    /\ progArr = [c \in Channels |-> 0]
    /\ NoRobot

\* The timer bank shared by two objects.
Next ==
    \/ \E c \in ChannelInputs : NewPWM(c)
    \/ \E c \in ChannelInputs : NewServo(c)
    \/ \E c \in ChannelInputs, hz \in ShareFreqInputs : SetFreq(c, hz)
    \/ \E c \in ChannelInputs, arr \in PeriodInputs : SetPeriod(c, arr)

Spec == Init /\ [][Next]_vars

\* One timer's channels under every setter of PWM.
NextChannel ==
    \/ \E c \in PulseChannels : NewPWM(c)
    \/ \E c \in PulseChannels, hz \in ChannelFreqInputs : SetFreq(c, hz)
    \/ \E c \in PulseChannels, p \in PrescalerInputs : SetPrescaler(c, p)
    \/ \E c \in PulseChannels, pw \in PulseInputs : SetPulseWidth(c, pw)
    \/ \E c \in PulseChannels, q \in PercentInputs : SetPulseWidthPercent(c, q)

SpecChannel == Init /\ [][NextChannel]_vars

\* Servos and PWM channels on the channels of one timer.
NextShared ==
    \/ \E c \in PulseChannels : NewPWM(c)
    \/ \E c \in PulseChannels : NewServo(c)
    \/ \E c \in PulseChannels, hz \in ShareFreqInputs : SetFreq(c, hz)
    \/ \E c \in PulseChannels, a \in {RI(-90), RI(0), RI(45), RI(90)} : SetAngle(c, a)

SpecShared == Init /\ [][NextShared]_vars

\* The frequency search over its input frequencies.
NextFreq ==
    \/ \E c \in FreqChannels : NewPWM(c)
    \/ \E c \in FreqChannels, hz \in FreqInputs : SetFreq(c, hz)

SpecFreq == Init /\ [][NextFreq]_vars

\* Servos and their angle writes.
NextServo ==
    \/ \E c \in ServoChannels : NewServo(c)
    \/ \E c \in ServoChannels, a \in AngleInputs : SetAngle(c, a)

SpecServo == Init /\ [][NextServo]_vars

----------------------------------------------------------------------------
(* robot.py: the motion controller.                                         *)

max_dps == 428
step_time == 10     \* milliseconds

PinList == <<0, 1>>
pin_num == Len(PinList)
Axes == 1 .. pin_num

\* Robot.new_list
new_list(v) == [i \in Axes |-> v]

\* Robot.servo_write_raw: servo_list[i].angle(angle_list[i]), i = 0 .. pin_num - 1;
\* an exception leaves the loop.
RECURSIVE servo_write_raw(_, _, _)
servo_write_raw(h, angle_list, i) ==
    IF i > pin_num \/ h.err # "none" THEN h
    ELSE servo_write_raw(angle(h, PinList[i], angle_list[i]), angle_list, i + 1)

\* Robot.servo_write_all: direction * (origin + given angle + offset) per axis.
RelAnglesNoOffset(angles, off) ==
    [i \in Axes |-> RMul(RI(direction[i]), RAdd(origin_positions[i], angles[i]))]

RelAngles(angles, off) ==
    [i \in Axes |->
        RMul(RI(direction[i]), RAdd(RAdd(origin_positions[i], angles[i]), off[i]))]

\* angles[i] and self.offset[i] raise IndexError on a list shorter than
\* pin_num, before anything is written.
WriteAllRaises(angles, off) ==
    IF Len(angles) < pin_num \/ Len(off) < pin_num THEN "IndexError" ELSE "none"

servo_write_all(h, angles) ==
    IF h.err # "none" THEN h
    ELSE IF WriteAllRaises(angles, offset) # "none"
         THEN [h EXCEPT !.err = WriteAllRaises(angles, offset)]
    ELSE servo_write_raw(h, RelAngles(angles, offset), 1)

\* The locals of servo_write_all(angles) run in one piece.
CallOf(angles) ==
    IF WriteAllRaises(angles, offset) # "none"
    THEN [angles |-> angles, rel |-> <<>>, used |-> <<>>, axis |-> 0]
    ELSE [angles |-> angles, rel |-> RelAngles(angles, offset),
          used |-> [i \in Axes |-> offset], axis |-> 0]

\* Robot.servo_move up to its loop: the locals it computes from the targets,
\* the speed and the bpm (bpm = 0 stands for None; `if bpm:` treats both alike).
MaxOf(s) == CHOOSE x \in {s[i] : i \in Axes} : \A y \in {s[i] : i \in Axes} : RLe(y, x)

MaxDelta(absdelta) == RI(RTrunc(MaxOf(absdelta)))

TotalTime(max_delta, speed, bpm) ==
    LET total_time == IF bpm # 0 THEN RMul(Rat(60, bpm), RI(1000))
                      ELSE Rat(10000 - 99 * speed, 10)       \* -9.9 * speed + 1000
        current_max_dps == RMul(RDiv(max_delta, total_time), RI(1000))
    IN  IF RLt(RI(max_dps), current_max_dps)
        THEN RMul(RDiv(max_delta, RI(max_dps)), RI(1000))
        ELSE total_time

MaxStepRounded(total_time) == RRound(RDiv(total_time, RI(step_time)))

MaxStep(total_time) == RTrunc(RDiv(total_time, RI(step_time)))

\* time.sleep(step_time / 1000) before the return of a move that has nothing
\* to do: the ticks slept when the loop is reached.
SleptNone(short, max_delta) == 0

Slept(short, max_delta) == IF ~short /\ max_delta = RI(0) THEN 1 ELSE 0

MovePlan(targets, speed0, bpm) ==
    LET speed == IF speed0 < 0 THEN 0 ELSE IF speed0 > 100 THEN 100 ELSE speed0
        short == Len(servo_positions) < pin_num \/ Len(targets) < pin_num
        delta == IF short THEN new_list(RI(0))
                 ELSE [i \in Axes |-> RSub(targets[i], servo_positions[i])]
        absdelta == [i \in Axes |-> RAbs(delta[i])]
        max_delta == MaxDelta(absdelta)
        max_step == MaxStep(TotalTime(max_delta, speed, bpm))
    IN  [targets |-> targets, speed |-> speed, bpm |-> bpm, delta |-> delta,
         absmax |-> MaxOf(absdelta), max_delta |-> max_delta, max_step |-> max_step,
         steps |-> IF max_delta = RI(0) \/ max_step = 0 THEN new_list(RI(0))
                   ELSE [i \in Axes |-> RDiv(delta[i], RI(max_step))],
         remaining |-> IF short \/ max_delta = RI(0) THEN 0 ELSE max_step,
         slept |-> Slept(short, max_delta),
         failed |-> FALSE,
         result |-> IF short THEN "IndexError"
                    ELSE IF max_delta = RI(0) THEN "returned"
                    ELSE IF max_step = 0 THEN "ZeroDivisionError"
                    ELSE "running"]

\* Robot.servo_move(targets, speed, bpm), to the first iteration of its loop:
\* raises IndexError in targets[i] - servo_positions[i] on a list shorter than
\* pin_num, returns after one sleep if int(max(absdelta)) is 0, raises
\* ZeroDivisionError in delta[i] / max_step if max_step is 0.
servo_move(targets, speed, bpm) ==
    /\ pc = "idle"
    /\ move' = MovePlan(targets, speed, bpm)
    /\ pc' = IF move'.result = "running" THEN "stepping" ELSE "idle"
    /\ tx' = <<>>
    /\ lastOp' = [op |-> "servo_move", ch |-> 0, arg |-> RI(0),
                  err |-> IF move'.result \in {"ZeroDivisionError", "IndexError"}
                          THEN move'.result ELSE "none"]
    /\ UNCHANGED <<timer, chan, faults, progOrder, progArr>>
    /\ UNCHANGED <<offset, origin_positions, direction, servo_positions>>
    /\ UNCHANGED <<db, calibrate_position, aliased, call, motors>>

ServoMove(targets, speed, bpm) == servo_move(targets, speed, bpm) /\ UNCHANGED action

\* One iteration of servo_move's loop: every position advances by its step,
\* servo_write_all writes all axes, the rest of the tick is slept.
ServoMoveStep ==
    /\ pc = "stepping"
    /\ servo_positions' = [j \in 1 .. Len(servo_positions) |->
                              IF j \in Axes THEN RAdd(servo_positions[j], move.steps[j])
                              ELSE servo_positions[j]]
    /\ calibrate_position' = IF aliased THEN servo_positions' ELSE calibrate_position
    /\ call' = CallOf(servo_positions')
    /\ \E h \in {servo_write_all(HW, servo_positions')} :
       LET left == move.remaining - 1
           bad == \E k \in 1 .. Len(h.tx) : ~h.tx[k].ok
       IN  /\ Commit(h, "step", 0, RI(0))
           /\ move' = [move EXCEPT !.remaining = left,
                                   !.slept = IF h.err # "none" THEN @ ELSE @ + 1,
                                   !.failed = @ \/ bad,
                                   !.result = IF h.err # "none" THEN h.err
                                              ELSE IF left = 0 THEN "returned"
                                              ELSE "running"]
           /\ pc' = IF h.err # "none" \/ left = 0 THEN "idle" ELSE "stepping"
    /\ UNCHANGED <<offset, origin_positions, direction, db, aliased>>
    /\ UNCHANGED <<action, motors>>

\* Robot.__init__: the offsets come from the calibration store, the servos
\* are constructed pin by pin and then driven, one by one, to
\* offset[i] + servo_positions[i].
RECURSIVE ConstructServos(_, _)
ConstructServos(h, i) ==
    IF i > pin_num \/ h.err # "none" THEN h
    ELSE ConstructServos(Servo_init(h, PinList[i]), i + 1)

RECURSIVE InitialAngles(_, _, _, _)
InitialAngles(h, off, pos, i) ==
    IF i > pin_num \/ h.err # "none" THEN h
    ELSE IF i > Len(off) THEN [h EXCEPT !.err = "IndexError"]
    ELSE InitialAngles(angle(h, PinList[i], RAdd(off[i], pos[i])), off, pos, i + 1)

StoredOffsets == {<<PyInt(5), PyInt(-5)>>}
StoredLines == {NoLine} \cup {fileDB_set(ListText(l)) : l \in StoredOffsets}
TargetInputs == {<<RI(0), RI(0)>>, <<<<1, 2>>, RI(0)>>, <<RI(2), RI(0)>>,
                 <<RI(8), RI(-8)>>, <<RI(90), RI(-90)>>}
MoveModes == {<<90, 0>>, <<100, 0>>, <<120, 0>>, <<50, 7000>>}

BlankHW == [timer |-> [t \in Timers |-> 1], chan |-> [c \in Channels |-> NoObject],
            faults |-> 0, tx |-> <<>>, err |-> "none",
            progOrder |-> <<>>, progArr |-> [c \in Channels |-> 0]]

\* Robot.__init__ on the store d with f failing bus attempts pending: the
\* offsets parsed from the stored text (ValueError on a piece float() does
\* not accept, before any servo exists), then the servos and their first
\* angles (IndexError when the offsets are fewer than the servos).
Robot_init(d, f) ==
    LET temp == fileDB_get(d, ListText(new_list(PyInt(0))))
        pieces == SplitComma(Strip(temp, {"[", "]"}), 1, <<>>)
        parsed == [i \in 1 .. Len(pieces) |-> ParseFloat(Strip(pieces[i], Whitespace))]
        bad == \E i \in 1 .. Len(pieces) : parsed[i].err # "none"
        off == [i \in 1 .. Len(pieces) |-> parsed[i].v]
        h0 == [BlankHW EXCEPT !.faults = f]
        h1 == InitialAngles([ConstructServos(h0, 1) EXCEPT !.tx = <<>>],
                            off, new_list(RI(0)), 1)
    IN  IF bad THEN [err |-> "ValueError", offset |-> <<>>, hw |-> h0]
        ELSE [err |-> h1.err, offset |-> off, hw |-> h1]

NoMove == [targets |-> new_list(RI(0)), speed |-> 0, bpm |-> 0,
           delta |-> new_list(RI(0)), absmax |-> RI(0), max_delta |-> RI(0),
           max_step |-> 0, steps |-> new_list(RI(0)), remaining |-> 0,
           slept |-> 0, failed |-> FALSE, result |-> "none"]

InitRobot ==
    /\ db \in StoredLines
    /\ offset = Robot_init(db, 0).offset
    /\ servo_positions = new_list(RI(0))
    /\ origin_positions = new_list(RI(0))
    /\ calibrate_position = new_list(RI(0))
    /\ aliased = FALSE
    /\ direction = new_list(1)
    /\ LET h == Robot_init(db, 0).hw
       IN  /\ timer = h.timer
           /\ chan = h.chan
           /\ faults = h.faults
           /\ tx = h.tx
           /\ progOrder = h.progOrder
           /\ progArr = h.progArr
    /\ lastOp = [op |-> "Robot", ch |-> 0, arg |-> RI(0), err |-> "none"]
    /\ pc = "idle"
    /\ move = NoMove
    /\ call = NoCall
    /\ action = NoAction
    /\ motors = NoMotors

\* Robot.set_offset(offset_list): min(max(offset, -20), 20) per element, the
\* text of the clamped list to the store, the clamped list to self.offset.
ClampOffset(x) ==
    LET lo == IF RLt(x.v, RI(-20)) THEN PyInt(-20) ELSE x      \* max(offset, -20)
    IN  IF RLt(RI(20), lo.v) THEN PyInt(20) ELSE lo            \* min(lo, 20)

set_offset(offset_list) ==
    /\ LET clamped == [i \in 1 .. Len(offset_list) |-> ClampOffset(offset_list[i])]
       IN  /\ db' = fileDB_set(ListText(clamped))
           /\ offset' = [i \in 1 .. Len(offset_list) |-> clamped[i].v]
    /\ tx' = <<>>
    /\ lastOp' = [op |-> "set_offset", ch |-> 0, arg |-> offset_list, err |-> "none"]
    /\ UNCHANGED <<timer, chan, faults, progOrder, progArr>>
    /\ UNCHANGED <<origin_positions, direction, servo_positions, pc, move,
                   calibrate_position, aliased, call>>
    /\ UNCHANGED <<action, motors>>

SetOffset(offset_list) == pc = "idle" /\ set_offset(offset_list)

\* Robot.calibration(): servo_positions becomes the calibrate_position list
\* itself, then servo_write_all(servo_positions).
Calibration ==
    /\ pc = "idle"
    /\ servo_positions' = calibrate_position
    /\ aliased' = TRUE
    /\ call' = CallOf(servo_positions')
    /\ Commit(servo_write_all(HW, servo_positions'), "calibration", 0, RI(0))
    /\ UNCHANGED <<offset, origin_positions, direction, pc, move, db, calibrate_position>>
    /\ UNCHANGED <<action, motors>>

\* Robot.reset(lst): servo_positions becomes a new list of zeros (lst is
\* None) or the caller's list, then servo_write_all(servo_positions).
Reset(given, lst) ==
    /\ pc = "idle"
    /\ servo_positions' = IF given THEN lst ELSE new_list(RI(0))
    /\ aliased' = FALSE
    /\ call' = CallOf(servo_positions')
    /\ Commit(servo_write_all(HW, servo_positions'), "reset", 0, RI(0))
    /\ UNCHANGED <<offset, origin_positions, direction, pc, move, db, calibrate_position>>
    /\ UNCHANGED <<action, motors>>

\* Robot.soft_reset(): servo_write_all of a new list of zeros.
SoftReset ==
    /\ pc = "idle"
    /\ call' = CallOf(new_list(RI(0)))
    /\ Commit(servo_write_all(HW, new_list(RI(0))), "soft_reset", 0, RI(0))
    /\ UNCHANGED <<offset, origin_positions, direction, servo_positions, pc, move,
                   db, calibrate_position, aliased>>
    /\ UNCHANGED <<action, motors>>

\* A new process constructs the Robot again on the same store: the module
\* state starts over, the store is what the last set_offset left.
Restart ==
    /\ pc \in {"idle", "absent"}
    /\ \E b \in {Robot_init(db, faults)} :
        /\ Commit(b.hw, "Robot", 0, RI(0)) /\ lastOp'.err = b.err
        /\ offset' = b.offset
        /\ pc' = IF b.err = "none" THEN "idle" ELSE "absent"
    /\ servo_positions' = new_list(RI(0))
    /\ origin_positions' = new_list(RI(0))
    /\ calibrate_position' = new_list(RI(0))
    /\ direction' = new_list(1)
    /\ aliased' = FALSE
    /\ move' = NoMove
    /\ call' = NoCall
    /\ UNCHANGED db
    /\ UNCHANGED <<action, motors>>

OffsetInputs == {<<PyInt(5), PyInt(-5)>>, <<PyInt(25), PyFloat(<<-11, 2>>)>>,
                 <<PyInt(5)>>, <<>>}
ResetInputs == {<<RI(10), RI(10)>>, <<RI(10)>>}
CalibTargets == {<<RI(8), RI(-8)>>}
CalibModes == {<<100, 0>>}

\* The controller under calibration, resets and restarts.
NextCalib ==
    \/ \E targets \in CalibTargets, m \in CalibModes : ServoMove(targets, m[1], m[2])
    \/ ServoMoveStep
    \/ \E l \in OffsetInputs : SetOffset(l)
    \/ Calibration
    \/ \E l \in ResetInputs : Reset(TRUE, l)
    \/ Reset(FALSE, <<>>)
    \/ SoftReset
    \/ Restart

SpecCalib == InitRobot /\ [][NextCalib]_vars

\* servo_move's loop and servo_write_all's loop an iteration at a time, for
\* a set_offset running in another thread: the interpreter may switch
\* threads between any two iterations.
StepBegin ==
    /\ pc = "stepping"
    /\ servo_positions' = [j \in 1 .. Len(servo_positions) |->
                              IF j \in Axes THEN RAdd(servo_positions[j], move.steps[j])
                              ELSE servo_positions[j]]
    /\ calibrate_position' = IF aliased THEN servo_positions' ELSE calibrate_position
    /\ call' = [angles |-> servo_positions', rel |-> <<>>, used |-> <<>>, axis |-> 1]
    /\ pc' = "writing"
    /\ tx' = <<>>
    /\ lastOp' = [op |-> "servo_write_all", ch |-> 0, arg |-> RI(0), err |-> "none"]
    /\ UNCHANGED <<timer, chan, faults, progOrder, progArr>>
    /\ UNCHANGED <<offset, origin_positions, direction, move, db, aliased>>
    /\ UNCHANGED <<action, motors>>

\* rel = self.direction[i] * (self.origin_positions[i] + angles[i] + self.offset[i])
StepAxis ==
    /\ pc = "writing"
    /\ call.axis <= pin_num
    /\ LET i == call.axis
           short == Len(offset) < i \/ Len(call.angles) < i
           rel == RMul(RI(direction[i]),
                       RAdd(RAdd(origin_positions[i], call.angles[i]), offset[i]))
       IN  /\ call' = IF short THEN [call EXCEPT !.axis = 0]
                      ELSE [call EXCEPT !.rel = Append(@, rel),
                                        !.used = Append(@, offset),
                                        !.axis = i + 1]
           /\ pc' = IF short THEN "idle" ELSE "writing"
           /\ move' = IF short THEN [move EXCEPT !.result = "IndexError"] ELSE move
           /\ lastOp' = [lastOp EXCEPT !.err = IF short THEN "IndexError" ELSE "none"]
    /\ UNCHANGED <<timer, chan, faults, tx, progOrder, progArr>>
    /\ UNCHANGED <<offset, origin_positions, direction, servo_positions, db,
                   calibrate_position, aliased>>
    /\ UNCHANGED <<action, motors>>

\* self.servo_write_raw(rel_angles), and the end of the iteration of servo_move.
StepWrite ==
    /\ pc = "writing"
    /\ call.axis > pin_num
    /\ call' = [call EXCEPT !.axis = 0]
    /\ \E h \in {servo_write_raw(HW, call.rel, 1)} :
       LET left == move.remaining - 1
           bad == \E k \in 1 .. Len(h.tx) : ~h.tx[k].ok
       IN  /\ Commit(h, "step", 0, RI(0))
           /\ move' = [move EXCEPT !.remaining = left,
                                   !.slept = IF h.err # "none" THEN @ ELSE @ + 1,
                                   !.failed = @ \/ bad,
                                   !.result = IF h.err # "none" THEN h.err
                                              ELSE IF left = 0 THEN "returned"
                                              ELSE "running"]
           /\ pc' = IF h.err # "none" \/ left = 0 THEN "idle" ELSE "stepping"
    /\ UNCHANGED <<offset, origin_positions, direction, servo_positions, db,
                   calibrate_position, aliased>>
    /\ UNCHANGED <<action, motors>>

RaceOffsets == {<<PyInt(0), PyInt(0)>>, <<PyInt(5), PyInt(-5)>>, <<PyInt(5), PyInt(3)>>}
RaceTargets == {<<RI(0), RI(0)>>, <<RI(8), RI(-8)>>}
RaceModes == {<<100, 0>>, <<90, 0>>}

\* A servo_move in one thread, set_offset in another.
NextRace ==
    \/ \E targets \in RaceTargets, m \in RaceModes : ServoMove(targets, m[1], m[2])
    \/ StepBegin
    \/ StepAxis
    \/ StepWrite
    \/ \E l \in RaceOffsets : set_offset(l)

SpecRace == InitRobot /\ [][NextRace]_vars

\* Robot.move_list as a robot built on this class fills it: named lists of
\* target vectors ("bow" holds a vector shorter than pin_num).
move_list ==
    [n \in {"wave", "nod", "bow"} |->
        IF n = "wave" THEN <<<<RI(8), RI(-8)>>, <<RI(0), RI(0)>>>>
        ELSE IF n = "nod" THEN <<<<RI(2), RI(0)>>, <<RI(8), RI(-8)>>, <<RI(0), RI(2)>>>>
        ELSE <<<<RI(8), RI(-8)>>, <<RI(8)>>, <<RI(0), RI(0)>>>>]

MoveErrors == {"ZeroDivisionError", "IndexError", "OSError"}

\* Robot.do_action(motion_name, step, speed) up to its loops: ValueError for
\* a name that is not in move_list.
DoAction(name, step, speed) ==
    /\ pc = "idle"
    /\ ~action.active
    /\ LET known == name \in DOMAIN move_list
           empty == step <= 0 \/ (known /\ move_list[name] = <<>>)
       IN  /\ action' = [name |-> name, step |-> step, speed |-> speed,
                         rep |-> 1, idx |-> 1, calls |-> <<>>,
                         active |-> known /\ ~empty,
                         result |-> IF ~known THEN "ValueError"
                                    ELSE IF empty THEN "returned" ELSE "running"]
           /\ lastOp' = [op |-> "do_action", ch |-> 0, arg |-> RI(0),
                         err |-> IF known THEN "none" ELSE "ValueError"]
    /\ tx' = <<>>
    /\ UNCHANGED <<timer, chan, faults, progOrder, progArr>>
    /\ UNCHANGED <<offset, origin_positions, direction, servo_positions, pc, move,
                   db, calibrate_position, aliased, call, motors>>

\* for motion in self.move_list[motion_name]: the motion of the inner loop.
MotionReversed(name, r, i) == move_list[name][Len(move_list[name]) - i + 1]

motion_at(name, r, i) == move_list[name][i]

\* The loops of do_action between two servo_move calls: the next
\* servo_move(motion, speed) is issued, or the loops are over and do_action
\* returns, or the servo_move just run raised and do_action ends with it.
DoActionNext ==
    /\ action.active
    /\ pc = "idle"
    /\ IF action.calls # <<>> /\ move.result \in MoveErrors
       THEN /\ action' = [action EXCEPT !.active = FALSE, !.result = move.result]
            /\ UNCHANGED <<timer, chan, faults, tx, lastOp, progOrder, progArr>>
            /\ UNCHANGED <<offset, origin_positions, direction, servo_positions, pc,
                           move, db, calibrate_position, aliased, call, motors>>
       ELSE IF action.rep > action.step
       THEN /\ action' = [action EXCEPT !.active = FALSE, !.result = "returned"]
            /\ UNCHANGED <<timer, chan, faults, tx, lastOp, progOrder, progArr>>
            /\ UNCHANGED <<offset, origin_positions, direction, servo_positions, pc,
                           move, db, calibrate_position, aliased, call, motors>>
       ELSE \E motion \in {motion_at(action.name, action.rep, action.idx)} :
            /\ servo_move(motion, action.speed, 0)
            /\ LET last == action.idx = Len(move_list[action.name])
                   raised == move'.result \in MoveErrors
               IN  action' = [action EXCEPT
                                 !.calls = Append(@, motion),
                                 !.idx = IF last THEN 1 ELSE @ + 1,
                                 !.rep = IF last THEN @ + 1 ELSE @,
                                 !.active = ~raised,
                                 !.result = IF raised THEN move'.result ELSE @]

ActionNames == {"wave", "nod", "bow", "jump"}
ActionSteps == {0, 1, 2}
ActionSpeeds == {100, 50}

\* The controller running preset actions.
NextAction ==
    \/ \E n \in ActionNames, k \in ActionSteps, v \in ActionSpeeds : DoAction(n, k, v)
    \/ DoActionNext
    \/ ServoMoveStep

SpecAction == InitRobot /\ [][NextAction]_vars

\* The caller assigns the public attributes direction and origin_positions,
\* as the robots built on this class do after construction.
Configure(dir, org) ==
    /\ pc = "idle"
    /\ direction' = dir
    /\ origin_positions' = org
    /\ tx' = <<>>
    /\ lastOp' = [op |-> "configure", ch |-> 0, arg |-> RI(0), err |-> "none"]
    /\ UNCHANGED <<timer, chan, faults, progOrder, progArr>>
    /\ UNCHANGED <<offset, servo_positions, pc, move, db, calibrate_position,
                   aliased, call>>
    /\ UNCHANGED <<action, motors>>

DirectionInputs == {<<1, 1>>, <<1, -1>>}
OriginInputs == {<<RI(0), RI(0)>>, <<RI(3), RI(-3)>>}
WriteOffsets == {<<PyInt(5), PyInt(-5)>>}
WriteResets == {<<RI(10), RI(10)>>, <<RI(100), RI(-100)>>}
WriteTargets == {<<RI(0), RI(0)>>, <<RI(8), RI(-8)>>}
WriteModes == {<<100, 0>>, <<90, 0>>}

\* Every operation that ends in servo_write_all, on a configured robot.
NextWrite ==
    \/ \E dir \in DirectionInputs, org \in OriginInputs : Configure(dir, org)
    \/ \E targets \in WriteTargets, m \in WriteModes : ServoMove(targets, m[1], m[2])
    \/ ServoMoveStep
    \/ \E l \in WriteOffsets : SetOffset(l)
    \/ Calibration
    \/ \E l \in WriteResets : Reset(TRUE, l)
    \/ Reset(FALSE, <<>>)
    \/ SoftReset

SpecWrite == InitRobot /\ [][NextWrite]_vars

LiveTargets == {<<RI(0), RI(0)>>, <<RI(2), RI(0)>>, <<RI(8), RI(-8)>>, <<RI(90), RI(-90)>>}
LiveModes == {<<0, 0>>, <<100, 0>>, <<0, 30>>, <<50, 7000>>}

\* servo_move as the blocking call it is: once its loop is entered, the
\* next iteration is always taken.
NextLive ==
    \/ \E targets \in LiveTargets, m \in LiveModes : ServoMove(targets, m[1], m[2])
    \/ ServoMoveStep

\* An iteration of servo_move's loop as the loop counter shows it: the
\* steps of ServoMoveStep, and enabled exactly when ServoMoveStep is.
LoopTick ==
    /\ pc = "stepping"
    /\ pc' \in {"idle", "stepping"}
    /\ \E r \in {"running", "returned"} \cup MoveErrors, f \in BOOLEAN, t \in 0 .. 1 :
          move' = [move EXCEPT !.remaining = @ - 1, !.slept = @ + t,
                               !.result = r, !.failed = f]

SpecLive == InitRobot /\ [][NextLive]_vars /\ WF_<<pc, move>>(LoopTick)

----------------------------------------------------------------------------
(* motor.py: the two motors and their persisted settings.  The hat is one   *)
(* with motor mode 1 (speed by PWM, direction by a GPIO pin).               *)

\* f'{name} = {value}' of a bool value.
BoolText(b) == IF b THEN <<"T", "r", "u", "e">> ELSE <<"F", "a", "l", "s", "e">>

\* bool(self.db.get(key, default_value=False)): the default False is falsy,
\* and of the texts get returns only the empty one is.
db_flag(d) == d.present /\ fileDB_get(d, <<>>) # <<>>

\* int(self.db.get(key, default_value=0) or 0)
db_id(d) == IF d.present THEN DigitsVal(fileDB_get(d, <<>>), 1, 0) ELSE 0

\* Motors.left, Motors.right: the index into motors (1-based here), 0 for
\* the ValueError; right tests left_id, and motors[right_id - 1] with
\* right_id = 0 is the last motor.
left(m) == IF m.left_id \in {1, 2} THEN m.left_id ELSE 0
right(m) == IF m.left_id \notin {1, 2} THEN 0
            ELSE IF m.right_id = 0 THEN 2 ELSE m.right_id

\* Motor(PWM(pin), Pin(dir)) in mode 1: PWM.__init__, freq(100),
\* pulse_width_percent(0.0).
Motor_init(h, c) ==
    pulse_width_percent(freq(PWM_init(h, c, "pwm"), c, RI(100), FreqChoiceOf[RI(100)]),
                        c, RI(0))

\* Motors.__init__: the ids and flags from the config file, the motors on
\* P13 and P12, then the flags to the motors whose id is set.
MotorsInit ==
    LET d == motors.db
        m0 == [db |-> d, present |-> TRUE, left_id |-> db_id(d["left"]),
               right_id |-> db_id(d["right"]), is_reverse |-> <<FALSE, FALSE>>,
               ret |-> FALSE]
        m1 == IF m0.left_id # 0 /\ left(m0) # 0
              THEN [m0 EXCEPT !.is_reverse[left(m0)] = db_flag(d["left_reverse"])]
              ELSE m0
        m2 == IF m0.right_id # 0 /\ right(m0) # 0
              THEN [m1 EXCEPT !.is_reverse[right(m0)] = db_flag(d["right_reverse"])]
              ELSE m1
        raises == (m0.left_id # 0 /\ left(m0) = 0) \/ (m0.right_id # 0 /\ right(m0) = 0)
    IN  /\ \E h \in {Motor_init(Motor_init(HW, 13), 12)} :
              /\ Commit(h, "Motors", 0, RI(0))
              /\ lastOp'.err = IF h.err # "none" THEN h.err
                               ELSE IF raises THEN "ValueError" ELSE "none"
        /\ motors' = IF raises THEN [NoMotors EXCEPT !.db = d] ELSE m2
        /\ UNCHANGED ctrlVars

\* Motors.set_left_id(id), Motors.set_right_id(id)
SetLeftId(id) ==
    /\ motors.present
    /\ motors' = IF id \in {1, 2}
                 THEN [motors EXCEPT !.left_id = id,
                                     !.db["left"] = fileDB_set(NatText(id))]
                 ELSE motors
    /\ tx' = <<>>
    /\ lastOp' = [op |-> "set_left_id", ch |-> 0, arg |-> RI(id),
                  err |-> IF id \in {1, 2} THEN "none" ELSE "ValueError"]
    /\ UNCHANGED <<timer, chan, faults, progOrder, progArr>>
    /\ UNCHANGED ctrlVars

SetRightId(id) ==
    /\ motors.present
    /\ motors' = IF id \in {1, 2}
                 THEN [motors EXCEPT !.right_id = id,
                                     !.db["right"] = fileDB_set(NatText(id))]
                 ELSE motors
    /\ tx' = <<>>
    /\ lastOp' = [op |-> "set_right_id", ch |-> 0, arg |-> RI(id),
                  err |-> IF id \in {1, 2} THEN "none" ELSE "ValueError"]
    /\ UNCHANGED <<timer, chan, faults, progOrder, progArr>>
    /\ UNCHANGED ctrlVars

\* Motors.set_left_reverse(): the stored flag read and negated, stored, then
\* given to the left motor (ValueError when no left id is set) and returned.
SetLeftReverse ==
    /\ motors.present
    /\ LET is_reversed == ~db_flag(motors.db["left_reverse"])
           saved == [motors EXCEPT !.db["left_reverse"] = fileDB_set(BoolText(is_reversed))]
       IN  /\ motors' = IF left(motors) = 0 THEN saved
                        ELSE [saved EXCEPT !.is_reverse[left(motors)] = is_reversed,
                                           !.ret = is_reversed]
           /\ lastOp' = [op |-> "set_left_reverse", ch |-> 0, arg |-> RI(0),
                         err |-> IF left(motors) = 0 THEN "ValueError" ELSE "none"]
    /\ tx' = <<>>
    /\ UNCHANGED <<timer, chan, faults, progOrder, progArr>>
    /\ UNCHANGED ctrlVars

\* Motors.set_right_reverse()
SetRightReverse ==
    /\ motors.present
    /\ LET is_reversed == ~db_flag(motors.db["right_reverse"])
           saved == [motors EXCEPT !.db["right_reverse"] = fileDB_set(BoolText(is_reversed))]
       IN  /\ motors' = IF right(motors) = 0 THEN saved
                        ELSE [saved EXCEPT !.is_reverse[right(motors)] = is_reversed,
                                           !.ret = is_reversed]
           /\ lastOp' = [op |-> "set_right_reverse", ch |-> 0, arg |-> RI(0),
                         err |-> IF right(motors) = 0 THEN "ValueError" ELSE "none"]
    /\ tx' = <<>>
    /\ UNCHANGED <<timer, chan, faults, progOrder, progArr>>
    /\ UNCHANGED ctrlVars

\* The motors under construction, the id setters and the reverse setters.
NextMotors ==
    \/ MotorsInit
    \/ \E id \in 1 .. 3 : SetLeftId(id)
    \/ \E id \in 1 .. 3 : SetRightId(id)
    \/ SetLeftReverse
    \/ SetRightReverse

SpecMotors == Init /\ [][NextMotors]_vars

----------------------------------------------------------------------------
NextRobot ==
    \/ \E targets \in TargetInputs, m \in MoveModes : ServoMove(targets, m[1], m[2])
    \/ ServoMoveStep
    \/ \E n \in 1 .. MaxFaults : BusFault(n)

SpecRobot == InitRobot /\ [][NextRobot]_vars

----------------------------------------------------------------------------
(* What the claims speak of.                                                *)

\* The value of the k-th register transaction of the latest operation, as
\* the two payload bytes (high, low) carry it.
Written(k) == tx[k].bytes[2] * 256 + tx[k].bytes[3]

\* The timer of a channel as the claims state it.
ClaimTimerOf(ch) ==
    IF ch <= 15 THEN ch \div 4
    ELSE IF ch = 16 \/ ch = 17 THEN 4
    ELSE IF ch = 18 THEN 5
    ELSE 6

\* The channels of timer t through which a period was programmed, latest first.
ProgrammedOn(t) == SelectSeq(progOrder, LAMBDA c : ClaimTimerOf(c) = t)

\* C2: any two channels of one timer read back the same period(), the one
\* most recently programmed through any channel of that timer; a timer no
\* channel has programmed holds period 1.
C2_SharedPeriod ==
    /\ \A c \in Channels : timer_index(c) = ClaimTimerOf(c)
    /\ \A c, d \in Objects :
         ClaimTimerOf(c) = ClaimTimerOf(d) => period_get(c) = period_get(d)
    /\ \A c \in Objects :
         /\ ProgrammedOn(ClaimTimerOf(c)) # <<>>
         /\ period_get(c) = progArr[Head(ProgrammedOn(ClaimTimerOf(c)))]
    /\ \A t \in Timers : ProgrammedOn(t) = <<>> => timer[t] = 1

C2_Witness ==
    /\ {16, 17} \subseteq Objects
    /\ lastOp.op = "freq" /\ lastOp.ch = 16 /\ lastOp.arg = RI(100)
    /\ period_get(17) = 849
    /\ timer[5] = 1

\* C3: after freq(hz) on one channel, freq() on every other channel of the
\* same timer reads the frequency of the new timer configuration.
C3_SiblingFrequency ==
    (lastOp.op = "freq" /\ lastOp.err = "none") =>
        \A d \in Objects :
            ClaimTimerOf(d) = ClaimTimerOf(lastOp.ch) => freq_get(d) = freq_get(lastOp.ch)

\* C8: right after a Servo is constructed its period() is 4095 and its
\* freq() reads 50.
C8_ServoCarrier ==
    lastOp.op = "Servo" => (period_get(lastOp.ch) = 4095 /\ freq_get(lastOp.ch) = 50)

\* The frequency search as the claims state it, for a requested frequency
\* hz = n / d: the start prescaler, the window, a candidate's period and the
\* comparison of two candidates' errors |CLOCK / (p * period) - hz|.
ClaimStart(hz) ==
    LET s == ISqrt((CLOCK * hz[2]) \div hz[1]) - 5
    IN  IF s > 1 THEN s ELSE 1

ClaimWindow(hz) == ClaimStart(hz) .. ClaimStart(hz) + 9

ClaimPeriod(hz, p) == (CLOCK * hz[2]) \div (hz[1] * p)

ClaimErrLess(hz, p, q) ==
    FracLt(Abs(CLOCK * hz[2] - hz[1] * p * ClaimPeriod(hz, p)), p * ClaimPeriod(hz, p) * hz[2],
           Abs(CLOCK * hz[2] - hz[1] * q * ClaimPeriod(hz, q)), q * ClaimPeriod(hz, q) * hz[2])

ClaimLeast(hz) == {p \in ClaimWindow(hz) : \A q \in ClaimWindow(hz) : ~ClaimErrLess(hz, q, p)}

ClaimBest(hz) == CHOOSE p \in ClaimLeast(hz) : \A q \in ClaimLeast(hz) : p <= q

\* C6 as stated: freq(hz), hz > 0, programs the candidate of the window of hz
\* with the least error, the smallest prescaler among equals.
C6_SmallestOfLeast ==
    (lastOp.op = "freq" /\ RLt(RI(0), lastOp.arg)) =>
        /\ lastOp.err = "none"
        /\ Len(tx) = 2
        /\ Written(1) + 1 = ClaimBest(lastOp.arg)
        /\ Written(2) = ClaimPeriod(lastOp.arg, ClaimBest(lastOp.arg))

\* C6, amended: freq(hz), hz >= 1, searches for int(hz).  Up to 7200000 it
\* programs a candidate of the window with the least error (prescaler - 1,
\* then period), not always the smallest prescaler among equals; above, a
\* candidate period is 0, the call raises ZeroDivisionError and programs
\* nothing.
C6_LeastError ==
    (lastOp.op = "freq" /\ RLe(RI(1), lastOp.arg)) =>
        LET f == RI(RTrunc(lastOp.arg))
        IN  IF RTrunc(lastOp.arg) <= 7200000
            THEN /\ lastOp.err = "none"
                 /\ Len(tx) = 2
                 /\ Written(1) + 1 \in ClaimLeast(f)
                 /\ Written(2) = ClaimPeriod(f, Written(1) + 1)
                 /\ prescaler_get(lastOp.ch) = Written(1) + 1
                 /\ period_get(lastOp.ch) = Written(2)
            ELSE /\ lastOp.err = "ZeroDivisionError"
                 /\ tx = <<>>

C6_Witness ==
    /\ lastOp.op = "freq" /\ lastOp.arg = RI(5) /\ lastOp.err = "none"
    /\ ClaimLeast(RI(5)) = {3794, 3795}
    /\ Written(1) + 1 = 3795
    /\ Written(2) = 3794

\* C7: for f in {50, 100, 1000, 20000} the programmed pair satisfies
\* |72000000 / (prescaler * period) - f| / f < 0.02.
C7_ErrorBound ==
    (lastOp.op = "freq" /\ lastOp.arg \in {RI(50), RI(100), RI(1000), RI(20000)}) =>
        /\ lastOp.err = "none"
        /\ Len(tx) = 2
        /\ Written(2) > 0
        /\ FracLt(CLOCK, (Written(1) + 1) * Written(2), 51 * lastOp.arg[1], 50)
        /\ FracLt(49 * lastOp.arg[1], 50, CLOCK, (Written(1) + 1) * Written(2))

C7_Witness ==
    /\ lastOp.op = "freq" /\ lastOp.arg = RI(100) /\ lastOp.err = "none"
    /\ Written(1) + 1 = 848
    /\ Written(2) = 849

\* The angle mapping as the claims state it.
ClaimPulse(deg) ==
    LET clamped == IF RLt(deg, RI(-90)) THEN RI(-90)
                   ELSE IF RLt(RI(90), deg) THEN RI(90) ELSE deg
    IN  RAdd(RI(500), RMul(RDiv(RAdd(clamped, RI(90)), RI(180)), RI(2000)))

ClaimScaled(deg) == RMul(RDiv(ClaimPulse(deg), RI(20000)), RI(4095))

\* C9 as stated: angle(deg) writes round(pulse_us / 20000 * 4095) to the
\* channel's pulse-width register.
C9_RoundedCount ==
    lastOp.op = "angle" =>
        /\ Len(tx) = 1
        /\ tx[1].reg = 32 + lastOp.ch
        /\ Written(1) = RRound(ClaimScaled(lastOp.arg))

\* C9, amended: angle(deg) writes pulse_us / 20000 * 4095 truncated to an
\* integer, not rounded, to the channel's pulse-width register.
C9_TruncatedCount ==
    lastOp.op = "angle" =>
        /\ Len(tx) = 1
        /\ tx[1].reg = 32 + lastOp.ch
        /\ Written(1) = RTrunc(ClaimScaled(lastOp.arg))
        /\ pulse_width_get(lastOp.ch) = Written(1)

C9_Witness ==
    /\ lastOp.op = "angle" /\ lastOp.arg = RI(90) /\ lastOp.ch = 19
    /\ tx[1].reg = 51
    /\ Written(1) = 511

\* C10: for deg in [-90, 90] the count written differs by at most 1 from
\* round(pulse_us / 20000 * 4095); angle(-90), angle(0), angle(90) write
\* within 1 of 102, 307, 512.
C10_WithinOne ==
    (lastOp.op = "angle" /\ RLe(RI(-90), lastOp.arg) /\ RLe(lastOp.arg, RI(90))) =>
        /\ Len(tx) = 1
        /\ Abs(Written(1) - RRound(ClaimScaled(lastOp.arg))) <= 1
        /\ lastOp.arg = RI(-90) => Abs(Written(1) - 102) <= 1
        /\ lastOp.arg = RI(0) => Abs(Written(1) - 307) <= 1
        /\ lastOp.arg = RI(90) => Abs(Written(1) - 512) <= 1

C10_Witness ==
    /\ lastOp.op = "angle" /\ lastOp.arg = RI(0)
    /\ Written(1) = 307
    /\ RRound(ClaimScaled(RI(0))) = 307

\* A write of the latest step that was given up after RETRY attempts.
StepWriteFailed == lastOp.op = "step" /\ \E k \in 1 .. Len(tx) : ~tx[k].ok

C4_ReachesTargets ==
    (lastOp.op \in {"servo_move", "step"} /\ pc = "idle" /\ move.result = "returned") =>
        \A i \in Axes : servo_positions[i] = move.targets[i]

\* C5: a servo_move that moves an axis lasts, nominally, at least
\* max_abs_delta / 428 * 1000 ms (steps x 10 ms), so no axis is commanded
\* faster than 428 degrees per second.
C5_RateCeiling ==
    (move.result \in {"running", "returned"} /\ move.max_step > 0) =>
        RLe(RMul(RDiv(move.absmax, RI(max_dps)), RI(1000)),
            RI(move.max_step * step_time))

\* p percent of period P, as the claims state it.
ClaimPercentOf(q, P) == RMul(RDiv(q, RI(100)), RI(P))

\* C16: a freq(hz) that succeeds on a channel on which pulse_width_percent(p)
\* was requested before leaves the channel's pulse width at p percent of the
\* new timer period (to the nearest count below or above); with no percentage
\* requested the raw pulse width is unchanged.
C16_PercentRederived ==
    [][(lastOp'.op = "freq" /\ lastOp'.err = "none") =>
         LET c == lastOp'.ch
             want == ClaimPercentOf(chan[c].pulse_width_percent[1],
                                    timer'[ClaimTimerOf(c)])
         IN  IF chan[c].pulse_width_percent # <<>>
             THEN chan'[c].pulse_width \in {RFloor(want), -RFloor(<<-want[1], want[2]>>)}
             ELSE chan'[c].pulse_width = chan[c].pulse_width]_vars

\* The value pulse_width(value) is said to send: value clamped to 0..65535.
ClaimClamped(v) == IF v < 0 THEN 0 ELSE IF v > 65535 THEN 65535 ELSE v

\* C17: pulse_width(value) issues exactly one 3-byte transaction: register
\* 0x20 + channel, then the high byte and the low byte of value clamped to
\* [0, 65535], both payload bytes in 0..255.
C17_ClampedWord ==
    lastOp.op = "pulse_width" =>
        /\ Len(tx) = 1
        /\ tx[1].len = 3
        /\ tx[1].bytes[1] = 32 + lastOp.ch
        /\ tx[1].bytes[2] = ClaimClamped(RTrunc(lastOp.arg)) \div 256
        /\ tx[1].bytes[3] = ClaimClamped(RTrunc(lastOp.arg)) % 256
        /\ tx[1].bytes[2] \in 0 .. 255 /\ tx[1].bytes[3] \in 0 .. 255

\* pulse_width_percent(pct), pct in [0, 100], has just run on channel c.
PercentStep(c) ==
    /\ lastOp'.op = "pulse_width_percent" /\ lastOp'.ch = c
    /\ RLe(RI(0), lastOp'.arg) /\ RLe(lastOp'.arg, RI(100))

\* It changed neither the timer periods nor any other channel.
PercentFrame(c) ==
    /\ timer' = timer
    /\ \A d \in Channels \ {c} : chan'[d] = chan[d]

\* C18 as stated: pulse_width_percent(pct) sets the pulse width to
\* round(pct / 100 * P), P the period of the channel's timer, and changes
\* neither that period nor another channel's pulse width.
C18_RoundedPercent ==
    [][\A c \in Channels : PercentStep(c) =>
         /\ chan'[c].pulse_width = RRound(ClaimPercentOf(lastOp'.arg, timer[ClaimTimerOf(c)]))
         /\ PercentFrame(c)]_vars

\* C18, amended: pulse_width_percent(pct) sets the pulse width to
\* pct / 100 * P truncated to an integer, not rounded, and changes neither
\* the period nor another channel's pulse width.
C18_TruncatedPercent ==
    [][\A c \in Channels : PercentStep(c) =>
         /\ chan'[c].pulse_width = RTrunc(ClaimPercentOf(lastOp'.arg, timer[ClaimTimerOf(c)]))
         /\ tx'[1].reg = 32 + c /\ Written(1)' = chan'[c].pulse_width
         /\ PercentFrame(c)]_vars

C18_Witness ==
    /\ lastOp.op = "pulse_width_percent" /\ lastOp.ch = 0 /\ lastOp.arg = RI(10)
    /\ period_get(0) = 268
    /\ pulse_width_get(0) = 26
    /\ chan[1].kind = "pwm" /\ pulse_width_get(1) = 600

\* C19: each getter returns the value last given to the matching setter:
\* freq() after freq(f), prescaler() after prescaler(p), pulse_width() after
\* pulse_width(v), pulse_width_percent() after pulse_width_percent(q).
C19_GetterReturnsSet ==
    lastOp.err = "none" =>
        /\ lastOp.op = "freq" => RI(freq_get(lastOp.ch)) = lastOp.arg
        /\ lastOp.op = "prescaler" => RI(prescaler_get(lastOp.ch)) = lastOp.arg
        /\ lastOp.op = "pulse_width" => RI(pulse_width_get(lastOp.ch)) = lastOp.arg
        /\ lastOp.op = "pulse_width_percent" =>
               pulse_width_percent_get(lastOp.ch) = <<lastOp.arg>>

\* C20: freq(hz) with hz <= 0 is rejected without effect: no register write,
\* and the cached frequency, the cached prescaler and the timer periods are
\* what they were before the call.
C20_RejectedUntouched ==
    [][(lastOp'.op = "freq" /\ RLe(lastOp'.arg, RI(0))) =>
         /\ lastOp'.err # "none"
         /\ tx' = <<>>
         /\ timer' = timer
         /\ chan'[lastOp'.ch].freq = chan[lastOp'.ch].freq
         /\ chan'[lastOp'.ch].prescaler = chan[lastOp'.ch].prescaler]_vars

\* The duration of a move before rate limiting, as the claims state it.
ClaimTotalMs(m) ==
    IF m.bpm # 0 THEN Rat(60000, m.bpm) ELSE Rat(10000 - 99 * m.speed, 10)

\* No rate limiting applies to move m: its fastest axis stays within max_dps.
ClaimUnlimited(m) ==
    RLe(RMul(RDiv(m.max_delta, ClaimTotalMs(m)), RI(1000)), RI(428))

\* C11: servo_move clamps speed to [0, 100]; without rate limiting it runs
\* exactly round(total_ms / 10) step-writes, total_ms = 60000 / bpm with a bpm
\* and -9.9 * speed + 1000 otherwise, each advancing every axis by
\* delta[axis] / steps.
C11_RoundedSteps ==
    (move.result \in {"running", "returned", "ZeroDivisionError"}
        /\ move.max_delta # RI(0) /\ ClaimUnlimited(move)) =>
        /\ move.speed \in 0 .. 100
        /\ move.max_step = RRound(RDiv(ClaimTotalMs(move), RI(10)))
        /\ move.result # "ZeroDivisionError"
        /\ \A i \in Axes : move.steps[i] = RDiv(move.delta[i], RI(move.max_step))
        /\ move.result = "returned" => move.remaining = 0

\* The offsets set_offset(L) is said to keep: every element within [-20, 20].
ClaimClampedList(l) ==
    [i \in 1 .. Len(l) |->
        IF RLt(l[i].v, RI(-20)) THEN RI(-20)
        ELSE IF RLt(RI(20), l[i].v) THEN RI(20) ELSE l[i].v]

\* C12: set_offset(L) keeps L clamped to [-20, 20] in Robot.offset and in the
\* store, and a Robot constructed afterwards on the same store is constructed
\* with the same offsets.
C12_OffsetRoundTrip ==
    /\ lastOp.op = "set_offset" =>
         /\ offset = ClaimClampedList(lastOp.arg)
         /\ db.present
    /\ (lastOp.op = "Robot" /\ db.present) =>
         /\ lastOp.err = "none"
         /\ pc = "idle"
         /\ \E l \in OffsetInputs \cup StoredOffsets :
                /\ db = fileDB_set(ListText([i \in 1 .. Len(l) |-> ClampOffset(l[i])]))
                /\ offset = ClaimClampedList(l)

\* C14: servo_positions[axis] is the angle most recently passed for that axis
\* to a servo_write_all that wrote the servos.
C14_PositionsAreCommanded ==
    (pc # "absent" /\ call.rel # <<>> /\ Len(servo_positions) >= pin_num) =>
        \A i \in Axes : servo_positions[i] = call.angles[i]

\* C15: offset, origin_positions, direction and servo_positions all have one
\* entry per servo.
C15_ListLengths ==
    pc # "absent" =>
        /\ Len(offset) = pin_num
        /\ Len(origin_positions) = pin_num
        /\ Len(direction) = pin_num
        /\ Len(servo_positions) = pin_num

\* C13: with set_offset running in another thread, the angles one
\* servo_write_all of a servo_move dispatches are computed from one offset
\* list for all axes: one of the lists Robot.offset held during the call.
C13_OneOffsetPerWrite ==
    (call.rel # <<>> /\ Len(call.rel) = pin_num) =>
        \E k \in 1 .. Len(call.used) :
            \A i \in Axes :
                call.rel[i] = RMul(RI(direction[i]),
                                   RAdd(RAdd(origin_positions[i], call.angles[i]),
                                        call.used[k][i]))

\* The absolute angles the latest operation passed to servo_write_all.
ClaimAngles == IF lastOp.op = "soft_reset" THEN new_list(RI(0)) ELSE servo_positions

\* The angle the claims state for axis i.
ClaimRel(i) ==
    RMul(RI(direction[i]), RAdd(RAdd(origin_positions[i], ClaimAngles[i]), offset[i]))

\* C21: the servo_write_all of servo_move, reset, calibration and soft_reset
\* dispatches, axis by axis in index order, the angle
\* direction[i] * (origin_positions[i] + angles[i] + offset[i]) to the servo
\* of axis i, with the offsets, origins and directions of that moment.
C21_WriteTransform ==
    (lastOp.op \in {"step", "reset", "calibration", "soft_reset"} /\ lastOp.err = "none") =>
        /\ Len(tx) = pin_num
        /\ \A i \in Axes :
            /\ tx[i].reg = 32 + PinList[i]
            /\ Written(i) = RTrunc(ClaimScaled(ClaimRel(i)))

C21_Witness ==
    /\ lastOp.op = "step" /\ lastOp.err = "none"
    /\ direction = <<1, -1>> /\ origin_positions = <<RI(3), RI(-3)>>
    /\ offset = <<RI(5), RI(-5)>>
    /\ servo_positions = <<RI(8), RI(-8)>>
    /\ Written(1) = 343 /\ Written(2) = 343

\* The k-th servo_move of do_action(name, step, speed) as the claims state it:
\* the list of the name, concatenated step times.
ClaimCalls(name, step) ==
    [k \in 1 .. step * Len(move_list[name]) |->
        move_list[name][((k - 1) % Len(move_list[name])) + 1]]

\* C22: do_action issues its servo_move calls in the order of the named list,
\* the whole list step times, and has issued all of them when it returns; for
\* a name that is not in move_list it raises without a servo_move, without a
\* servo write and without a change of servo_positions.
C22_ActionSequence ==
    [][/\ action'.name \in DOMAIN move_list =>
            /\ Len(action'.calls) <= Len(ClaimCalls(action'.name, action'.step))
            /\ \A k \in 1 .. Len(action'.calls) :
                    action'.calls[k] = ClaimCalls(action'.name, action'.step)[k]
            /\ action'.result = "returned" =>
                    action'.calls = ClaimCalls(action'.name, action'.step)
       /\ (lastOp'.op = "do_action" /\ action'.name \notin DOMAIN move_list) =>
            /\ lastOp'.err = "ValueError"
            /\ action'.result = "ValueError" /\ ~action'.active
            /\ action'.calls = <<>>
            /\ tx' = <<>>
            /\ servo_positions' = servo_positions
            /\ chan' = chan
            /\ pc' = "idle"
            /\ move' = move]_vars

C22_Witness ==
    /\ action.name = "nod" /\ action.step = 2 /\ action.result = "returned"
    /\ Len(action.calls) = 6
    /\ action.calls[4] = <<RI(2), RI(0)>>
    /\ servo_positions = <<RI(0), RI(2)>>

\* The step ticks of move m as the claims state the duration: the total
\* time, raised by the rate limit, in whole ticks of 10 ms.
ClaimTicks(m) ==
    LET limited == RMul(RDiv(m.max_delta, RI(428)), RI(1000))
    IN  RFloor(RDiv(RMax(ClaimTotalMs(m), limited), RI(10)))

\* C23 as stated: every servo_move ends, and within 100 step ticks, whatever
\* the targets, the speed and the bpm.
C23_WithinOneSecond ==
    (move.result \in {"running", "returned"} /\ move.max_delta # RI(0)) =>
        /\ move.max_step <= 100
        /\ move.remaining <= 100

\* C23, amended: every servo_move ends and leaves the controller idle after
\* exactly int(total_time / 10) step ticks (none when it raises or when no
\* axis moves by a whole degree); the count is at most 100 for a move by
\* speed of at most 428 degrees, and larger for a slow tempo.
C23_Terminates ==
    /\ [](/\ pc \in {"idle", "stepping"}
          /\ pc = "stepping" <=> (move.result = "running" /\ move.remaining > 0)
          /\ (move.result \in {"running", "returned"} /\ move.max_delta # RI(0)) =>
                /\ move.max_step = ClaimTicks(move)
                /\ move.remaining \in 0 .. move.max_step
                /\ (move.bpm = 0 /\ RLe(move.max_delta, RI(428))) => move.max_step <= 100
          /\ (pc = "idle" /\ move.result = "returned") => move.remaining = 0)
    /\ (pc = "stepping") ~> (pc = "idle" /\ move.remaining = 0)

C23_Witness ==
    /\ move.bpm = 30 /\ move.max_step = 200
    /\ move.result = "returned" /\ move.remaining = 0
    /\ pc = "idle" /\ lastOp.op = "step"
    /\ servo_positions = move.targets

\* C24: a servo_move whose targets all equal the current positions writes to
\* no servo, leaves servo_positions as they are and returns after sleeping
\* one 10 ms tick.
C24_NoopMove ==
    [][(lastOp'.op = "servo_move" /\ lastOp'.err = "none"
          /\ \A i \in Axes : move'.targets[i] = servo_positions[i]) =>
            /\ tx' = <<>>
            /\ servo_positions' = servo_positions
            /\ chan' = chan /\ timer' = timer
            /\ move'.result = "returned"
            /\ move'.slept = 1
            /\ pc' = "idle"]_vars

C24_Witness ==
    /\ lastOp.op = "servo_move" /\ move.result = "returned"
    /\ move.targets = <<RI(8), RI(-8)>>
    /\ servo_positions = move.targets
    /\ move.slept = 1 /\ tx = <<>>

\* The failing attempts still pending when the k-th transfer of an operation
\* starts, as the claims state the retries: a transfer uses up the pending
\* failures, 5 of them at most.
ClaimPending(k) == IF faults > 5 * (k - 1) THEN faults - 5 * (k - 1) ELSE 0

\* C25: a bus transfer is attempted at most 5 times: an attempt that fails
\* with OSError is followed by another until one succeeds or 5 have failed,
\* none is made after the first success, and failures followed by a success
\* within the 5 attempts do not show to the caller.
C25_RetryBound ==
    [][(lastOp'.op = "step" /\ move'.remaining = move.remaining - 1) =>
          \A k \in 1 .. Len(tx') :
              /\ tx'[k].attempts \in 1 .. 5
              /\ tx'[k].attempts = (IF ClaimPending(k) < 5 THEN ClaimPending(k) + 1 ELSE 5)
              /\ tx'[k].ok <=> ClaimPending(k) < 5
              /\ ClaimPending(k) < 5 =>
                    /\ lastOp'.err = "none"
                    /\ chan'[tx'[k].reg - 32].pulse_width
                          = tx'[k].bytes[2] * 256 + tx'[k].bytes[3]]_vars

C25_Witness ==
    /\ lastOp.op = "step" /\ lastOp.err = "none"
    /\ Len(tx) = pin_num
    /\ tx[1].attempts = 4 /\ tx[1].ok
    /\ tx[2].attempts = 1 /\ tx[2].ok
    /\ ~move.failed

\* The reversed flag a line of the motors' config file records: True when
\* the line says True, False when it says False or is missing.
ClaimSaved(d) == d.present /\ Strip(d.val, Whitespace) = <<"T", "r", "u", "e">>

\* C26: set_left_reverse() and set_right_reverse() invert the persisted flag
\* at every call, give the new flag to the motor and return it, and a Motors
\* object constructed afterwards applies the flags last saved.
C26_ReverseToggles ==
    [][/\ (lastOp'.op = "set_left_reverse" /\ lastOp'.err = "none") =>
            /\ ClaimSaved(motors'.db["left_reverse"]) = ~ClaimSaved(motors.db["left_reverse"])
            /\ motors'.ret = ClaimSaved(motors'.db["left_reverse"])
            /\ motors'.is_reverse[motors.left_id] = motors'.ret
       /\ (lastOp'.op = "set_right_reverse" /\ lastOp'.err = "none" /\ motors.right_id # 0) =>
            /\ ClaimSaved(motors'.db["right_reverse"]) = ~ClaimSaved(motors.db["right_reverse"])
            /\ motors'.ret = ClaimSaved(motors'.db["right_reverse"])
            /\ motors'.is_reverse[motors.right_id] = motors'.ret
       /\ (lastOp'.op = "Motors" /\ lastOp'.err = "none"
             /\ motors'.left_id # motors'.right_id) =>
            /\ motors'.left_id # 0 =>
                 motors'.is_reverse[motors'.left_id] = ClaimSaved(motors.db["left_reverse"])
            /\ motors'.right_id # 0 =>
                 motors'.is_reverse[motors'.right_id] = ClaimSaved(motors.db["right_reverse"])]_vars

\* C27: calibration(), servo_move(), reset() and soft_reset() leave the
\* contents of calibrate_position as they are, a servo_move run after
\* calibration() included.
C27_HomeUntouched ==
    [][lastOp'.op \in {"calibration", "servo_move", "step", "reset", "soft_reset"} =>
          calibrate_position' = calibrate_position]_vars

\* C28: servo_move never raises ZeroDivisionError: when an axis has to move,
\* the step count is at least 1, for every speed and every bpm > 0, a beat
\* shorter than one 10 ms tick included.
C28_NoDivisionByZero ==
    lastOp.op \in {"servo_move", "step"} =>
        /\ move.result # "ZeroDivisionError"
        /\ lastOp.err # "ZeroDivisionError"
        /\ (move.max_delta # RI(0) /\ move.result \in {"running", "returned"}) =>
              move.max_step >= 1

\* C29: whenever Servo.angle() writes a pulse width, the period of the
\* servo's timer is 4095, whatever PWM and Servo constructions and freq()
\* calls on the other channels of the timer came before.
C29_ServoPeriod ==
    (lastOp.op = "angle" /\ lastOp.err = "none") =>
        timer[ClaimTimerOf(lastOp.ch)] = 4095

\* C30: every pulse width a servo writes in a Robot operation, whatever the
\* targets, offsets, origins and directions, lies between 102 and 512 counts
\* and within the servo period 4095.
C30_PulseRange ==
    lastOp.op \in {"Robot", "step", "reset", "calibration", "soft_reset"} =>
        \A k \in 1 .. Len(tx) :
            /\ tx[k].reg \in {32 + PinList[i] : i \in Axes}
            /\ Written(k) >= 102
            /\ Written(k) <= 512
            /\ Written(k) <= 4095
            /\ chan[tx[k].reg - 32].pulse_width = Written(k)

C30_Witness ==
    /\ lastOp.op = "reset" /\ lastOp.err = "none"
    /\ servo_positions = <<RI(100), RI(-100)>>
    /\ direction = <<1, 1>>
    /\ Len(tx) = pin_num
    /\ Written(1) = 511 /\ Written(2) = 102

====
